---- MODULE Spec2Model ----
(***************************************************************************)
(* Rain Matrix (run.py): the SQLite response cache (rain_cache table),     *)
(* the request handler index() and the matrix / badge derivations.         *)
(*                                                                         *)
(* Time is counted in ticks, TicksPerSec ticks to the second, so that the  *)
(* sub-second part of datetime.utcnow() exists and the second-resolution   *)
(* text written by strftime / SQLite datetime() really truncates it.       *)
(* Dates are day numbers, created_at is the second count that the text     *)
(* "YYYY-MM-DD HH:MM:SS" denotes.                                          *)
(***************************************************************************)
EXTENDS Integers, Sequences, FiniteSets, TLC

VARIABLES
    now,          \* the clock, in ticks since midnight UTC of day 0
    advances,     \* how often the clock has moved
    rain_cache,   \* the rows of table rain_cache
    last,         \* the cache operation just executed, for the direct calls
    putAt,        \* per key: instant and payload of the latest surviving put
    places_file,  \* places.txt: its records, st_mtime and st_size
    edits,        \* how often places.txt has been rewritten
    req,          \* per request: the locals of index() and where it stands
    putter,       \* the request whose cache_put executed last
    pop_in,       \* probability handed to the badge colouring
    pill,         \* badge colour derived from pop_in
    icon_in,      \* cloud cover, precipitation and hour handed to weather_icon
    icon,         \* what weather_icon returned for icon_in
    precip_in,    \* precipitation handed to precip_bg_color
    precip_bg     \* what precip_bg_color returned for precip_in

vars == <<now, advances, rain_cache, last, putAt, places_file, edits, req,
          putter, pop_in, pill, icon_in, icon, precip_in, precip_bg>>

None == "None"

\* ---------------------------------------------------------------- bounds
TicksPerSec == 2
MaxAdvance == 4
MaxReqAdvance == 1
MaxEdits == 1
PctUnit == 1000
MmUnit == 100000

\* ---------------------------------------------------------------- config
DEFAULT_TZ == "Asia/Manila"
DEFAULT_COUNTRY == "PH"
DEFAULT_MODEL == "ecmwf_ifs"
FUTURE_DAYS_ALLOWED == 4
CACHE_TTL_SECONDS == 60 * 60
CACHE_RETENTION_DAYS == 2
SecondsPerDay == 24 * 60 * 60

\* ---------------------------------------------------------------- clock
\* datetime.utcnow(): the clock with its sub-second part.
utcnow == now

\* strftime("%Y-%m-%d %H:%M:%S"): the text keeps whole seconds only.
strftime(t) == t \div TicksPerSec

\* datetime.strptime(created_at, "%Y-%m-%d %H:%M:%S"): back to an instant.
strptime(s) == s * TicksPerSec

\* total_seconds() > n, on instants counted in ticks.
total_seconds_gt(age, n) == age > n * TicksPerSec

\* SQLite datetime('now', '-N days'): second resolution, N days earlier.
sqlite_datetime_now(t, days) == (t \div TicksPerSec) - days * SecondsPerDay

\* --------------------------------------------------------------- helpers
\* Percentages are counted in PctUnit-ths of a percent, millimetres in
\* MmUnit-ths of a millimetre; a datetime of the forecast is a local date and
\* an hour, [date |-> d, hour |-> h].
DAY_START_HOUR == 6
DAY_END_HOUR == 18
CLEAR_MAX == 25 * PctUnit
PARTLY_MAX == 60 * PctUnit
LIGHT_MAX == (25 * MmUnit) \div 10
MODERATE_MAX == (75 * MmUnit) \div 10

\* An optional value: <<>> is None (or an absent key), <<v>> is v.
Absent == <<>>
Some(v) == <<v>>

Min2(a, b) == IF a <= b THEN a ELSE b

is_day(dt) == DAY_START_HOUR <= dt.hour /\ dt.hour < DAY_END_HOUR

weather_icon_light_exclusive(cloudcover_pct, precipitation_mm, dt) ==
    LET cc == cloudcover_pct
        p == precipitation_mm
        dayflag == is_day(dt)
    IN  IF p > 0
        THEN IF p < LIGHT_MAX
             THEN (IF dayflag THEN "sun_behind_rain_cloud" ELSE "cloud_with_rain")
             ELSE IF p <= MODERATE_MAX THEN "cloud_with_rain"
             ELSE "cloud_with_lightning_and_rain"
        ELSE IF cc <= CLEAR_MAX
             THEN (IF dayflag THEN "sun" ELSE "crescent_moon")
             ELSE IF cc <= PARTLY_MAX
             THEN (IF dayflag THEN "sun_behind_small_cloud"
                   ELSE "crescent_moon_cloud")
             ELSE "cloud"

\* The icons are named after their glyphs; the night variant of light rain
\* and the icon of moderate rain are the same glyph in the source.
weather_icon(cloudcover_pct, precipitation_mm, dt) ==
    LET cc == cloudcover_pct
        p == precipitation_mm
        dayflag == is_day(dt)
    IN  IF p > 0
        THEN IF p <= LIGHT_MAX
             THEN (IF dayflag THEN "sun_behind_rain_cloud" ELSE "cloud_with_rain")
             ELSE IF p <= MODERATE_MAX THEN "cloud_with_rain"
             ELSE "cloud_with_lightning_and_rain"
        ELSE IF cc <= CLEAR_MAX
             THEN (IF dayflag THEN "sun" ELSE "crescent_moon")
             ELSE IF cc <= PARTLY_MAX
             THEN (IF dayflag THEN "sun_behind_small_cloud"
                   ELSE "crescent_moon_cloud")
             ELSE "cloud"

\* A "#RRGGBB" colour is the sequence of its six hexadecimal digits.
SCALE_MAX_MM == 7 * MmUnit
SKYBLUE == <<8, 7, 12, 14, 14, 11>>
VIOLET == <<8, 10, 2, 11, 14, 2>>

\* int(h[0:2], 16), int(h[2:4], 16), int(h[4:6], 16)
_hex_to_rgb(h) == <<16 * h[1] + h[2], 16 * h[3] + h[4], 16 * h[5] + h[6]>>

\* f"#{r:02X}{g:02X}{b:02X}", for channels of at most two digits.
_rgb_to_hex(r, g, b) ==
    <<r \div 16, r % 16, g \div 16, g % 16, b \div 16, b % 16>>

\* A float that is the quotient of two integers is kept as that quotient,
\* [num, den] with den > 0.
Quot(n, d) == [num |-> n, den |-> d]

\* round(x): to the nearest integer, a tie to the even one.
round(x) ==
    LET q == x.num \div x.den
        r == x.num % x.den
    IN  IF 2 * r < x.den THEN q
        ELSE IF 2 * r > x.den THEN q + 1
        ELSE IF q % 2 = 0 THEN q ELSE q + 1

\* c0 + (c1 - c0) * t
blend(c0, c1, t) == Quot(c0 * t.den + (c1 - c0) * t.num, t.den)

_clamp01(x) ==
    IF x.num < 0 THEN Quot(0, 1) ELSE IF x.num > x.den THEN Quot(1, 1) ELSE x

\* t * t * (3.0 - 2.0 * t), after the clamp
_smoothstep(t) ==
    LET c == _clamp01(t)
    IN  Quot(c.num * c.num * (3 * c.den - 2 * c.num), c.den * c.den * c.den)

_lerp_color(c0, c1, t) ==
    LET e == _smoothstep(t)
        a == _hex_to_rgb(c0)
        b == _hex_to_rgb(c1)
    IN  _rgb_to_hex(round(blend(a[1], b[1], e)), round(blend(a[2], b[2], e)),
                    round(blend(a[3], b[3], e)))

precip_bg_color_scale_moderate(p_mm) ==
    LET p == IF p_mm > 0 THEN p_mm ELSE 0
        t == Quot(p, SCALE_MAX_MM)
        a == _hex_to_rgb(SKYBLUE)
        b == _hex_to_rgb(VIOLET)
    IN  IF p >= MODERATE_MAX THEN VIOLET
        ELSE _rgb_to_hex(round(blend(a[1], b[1], t)),
                         round(blend(a[2], b[2], t)),
                         round(blend(a[3], b[3], t)))

\* The blend of precip_bg_color is on t itself: _smoothstep is not applied.
precip_bg_color(p_mm) ==
    LET p == IF p_mm > 0 THEN p_mm ELSE 0
        t == Quot(p, SCALE_MAX_MM)
        a == _hex_to_rgb(SKYBLUE)
        b == _hex_to_rgb(VIOLET)
    IN  IF p >= SCALE_MAX_MM THEN VIOLET
        ELSE _rgb_to_hex(round(blend(a[1], b[1], t)),
                         round(blend(a[2], b[2], t)),
                         round(blend(a[3], b[3], t)))

\* "-" (here Absent) without precipitation, else f"{p_mm:.1f}": the
\* precipitation rounded to tenths of a millimetre.
precip_display(p_mm) ==
    IF p_mm <= 0 THEN Absent ELSE Some(round(Quot(10 * p_mm, MmUnit)))

\* int(pop or 0)
int_or_0(pop) == IF pop = Absent THEN 0 ELSE pop[1]

POP_WHITE == "#FFFFFF"
POP_GREEN == "#D1E7DD"
POP_YELLOW == "#FFF3CD"
POP_RED == "#F8D7DA"

pill_bg_50_is_yellow(pop) ==
    LET pop_i == int_or_0(pop)
    IN  IF pop_i > 80 THEN POP_RED
        ELSE IF pop_i >= 50 THEN POP_YELLOW
        ELSE IF pop_i >= 30 THEN POP_GREEN
        ELSE POP_WHITE

\* The badge colour of one cell (render_html, inside the cell loop).
pill_bg(pop) ==
    LET pop_i == int_or_0(pop)
    IN  IF pop_i > 80 THEN POP_RED
        ELSE IF pop_i > 50 THEN POP_YELLOW
        ELSE IF pop_i >= 30 THEN POP_GREEN
        ELSE POP_WHITE

\* strftime("%H:00"): the hour key of a datetime (the forecast is hourly,
\* its datetimes carry no minutes).
hour_key(dt) == dt.hour

\* The order of datetimes.
dt_lt(a, b) == a.date < b.date \/ (a.date = b.date /\ a.hour < b.hour)

\* list.sort(): stable, ascending.
RECURSIVE sort_insert(_, _)
sort_insert(sorted, x) ==
    IF sorted = <<>> THEN <<x>>
    ELSE IF dt_lt(x, sorted[Len(sorted)])
         THEN Append(sort_insert(SubSeq(sorted, 1, Len(sorted) - 1), x),
                     sorted[Len(sorted)])
         ELSE Append(sorted, x)

RECURSIVE list_sort(_)
list_sort(xs) ==
    IF xs = <<>> THEN <<>>
    ELSE sort_insert(list_sort(SubSeq(xs, 1, Len(xs) - 1)), xs[Len(xs)])

\* os.stat(path) -> f"{int(st.st_mtime)}:{st.st_size}"
places_signature_mtime_only(file) == [mtime |-> file.mtime, size |-> 0]

places_signature(file) == [mtime |-> file.mtime, size |-> file.size]

\* read_places_file: the records of the file, in file order.
read_places_file(file) == file.places

\* The UTC offset of a zone, in seconds.
UtcOffsetSeconds(tz) == IF tz = "Asia/Manila" THEN 8 * 60 * 60 ELSE 0

\* datetime.now(ZoneInfo(tz_name)).date(), as a day number, for the zone
\* names ZoneInfo knows (the fallback to the server's own date for an
\* unknown name is not modelled).
safe_now_date_in_tz(tz, t) ==
    ((t \div TicksPerSec) + UtcOffsetSeconds(tz)) \div SecondsPerDay

\* min_date <= target_date <= max_date
date_in_range_exclusive_max(min_date, target_date, max_date) ==
    min_date <= target_date /\ target_date < max_date

date_in_range(min_date, target_date, max_date) ==
    min_date <= target_date /\ target_date <= max_date

\* OpenMeteoClient.hourly_forecast, after the HTTP call succeeded: the
\* "hourly" object of the JSON body, with the probabilities defaulted.
hourly_forecast(h) ==
    [time |-> h.time,
     precip |-> h.precipitation,
     pop |-> IF h.precipitation_probability = <<>>
             THEN [j \in 1..Len(h.time) |-> Some(0)]
             ELSE h.precipitation_probability,
     cloud |-> h.cloudcover]

\* zip(time, precip, pop, cloud) stops at the shortest of the four.
zip4(a, b, c, d) ==
    [j \in 1..Min2(Min2(Len(a), Len(b)), Min2(Len(c), Len(d))) |->
        <<a[j], b[j], c[j], d[j]>>]

sample_step_cells_of_any_date(acc, smp, target_date) ==
    LET t == smp[1]
        pr == smp[2]
        pop == smp[3]
        cc == smp[4]
        hk == hour_key(t)
        cells == [x \in DOMAIN acc.cells \cup {hk} |->
                     IF x = hk
                     THEN <<weather_icon(cc, pr, t), pr, int_or_0(pop)>>
                     ELSE acc.cells[x]]
    IN  IF t.date # target_date THEN [acc EXCEPT !.cells = cells]
        ELSE [cells |-> cells,
              time_index |-> IF hk \notin acc.seen_hours
                             THEN Append(acc.time_index, t)
                             ELSE acc.time_index,
              seen_hours |-> acc.seen_hours \cup {hk}]

\* The body of the inner loop of index() for one sample, on the locals
\* acc = [cells, time_index, seen_hours].
sample_step(acc, smp, target_date) ==
    LET t == smp[1]
        pr == smp[2]
        pop == smp[3]
        cc == smp[4]
        hk == hour_key(t)
    IN  IF t.date # target_date THEN acc
        ELSE [cells |-> [x \in DOMAIN acc.cells \cup {hk} |->
                            IF x = hk
                            THEN <<weather_icon(cc, pr, t), pr, int_or_0(pop)>>
                            ELSE acc.cells[x]],
              time_index |-> IF hk \notin acc.seen_hours
                             THEN Append(acc.time_index, t)
                             ELSE acc.time_index,
              seen_hours |-> acc.seen_hours \cup {hk}]

RECURSIVE samples_loop(_, _, _, _)
samples_loop(acc, z, j, target_date) ==
    IF j > Len(z) THEN acc
    ELSE samples_loop(sample_step(acc, z[j], target_date), z, j + 1,
                      target_date)

\* The "no data" cell of render_html.
SentinelCell == <<"em_dash", 0, 0>>

cell_lookup_cloud_default(cell_map, label, hk) ==
    IF label \in DOMAIN cell_map /\ hk \in DOMAIN cell_map[label]
    THEN cell_map[label][hk]
    ELSE <<"cloud", 0, 0>>

\* cell_map.get(label, {}).get(hk, sentinel)
cell_lookup(cell_map, label, hk) ==
    IF label \in DOMAIN cell_map /\ hk \in DOMAIN cell_map[label]
    THEN cell_map[label][hk]
    ELSE SentinelCell

\* render_html: what of the page depends on the request: the date chips,
\* the links' parameters, the column heads and the table, one row per
\* element of time_index and one cell per place.
\* A cell keeps the locals of the cell loop: icon, precip and pop_i, and
\* the bg, val and pill_bg the markup of the cell is written from.
render_html(target_date, min_date, max_date, tz, model, places, time_index, cell_map, from_cache, nocache, base_params) ==
    [target_date |-> target_date,
     min_date |-> min_date,
     max_date |-> max_date,
     base_params |-> base_params,
     head |-> [j \in 1..Len(places) |-> places[j].label],
     table |-> [i \in 1..Len(time_index) |->
                  [time |-> time_index[i],
                   cells |-> [j \in 1..Len(places) |->
                       LET c == cell_lookup(cell_map, places[j].label,
                                            hour_key(time_index[i]))
                       IN  [icon |-> c[1], precip |-> c[2],
                            bg |-> precip_bg_color(c[2]),
                            val |-> precip_display(c[2]),
                            pop_i |-> int_or_0(Some(c[3])),
                            pill_bg |-> pill_bg(Some(c[3]))]]]]]

\* ---------------------------------------------------------------- cache
\* One row of rain_cache; the six key columns are the PRIMARY KEY.
CacheKey(qd, td, tz, country, model, sig) ==
    [query_date |-> qd, target_date |-> td, tz |-> tz,
     country |-> country, model |-> model, places_sig |-> sig]

Row(k, html, created) == [key |-> k, html |-> html, created_at |-> created]

cache_prune_now_cutoff(store, t) ==
    {row \in store : ~(row.created_at < sqlite_datetime_now(t, 0))}

cache_prune_one_day_less(store, t) ==
    {row \in store :
        ~(row.created_at < sqlite_datetime_now(t, CACHE_RETENTION_DAYS - 1))}

cache_prune_inclusive(store, t) ==
    {row \in store :
        ~(row.created_at <= sqlite_datetime_now(t, CACHE_RETENTION_DAYS))}

\* DELETE FROM rain_cache WHERE created_at < datetime('now', '-2 days')
cache_prune(store, t) ==
    {row \in store :
        ~(row.created_at < sqlite_datetime_now(t, CACHE_RETENTION_DAYS))}

\* SELECT html, created_at ... WHERE <all six key columns match>; fetchone();
\* a row older than the TTL is reported as a miss.  The store is returned
\* with the result: the statement is a SELECT and writes nothing.
cache_get_lazy_delete(store, k, t) ==
    LET rows == {row \in store : row.key = k}
    IN  IF rows = {} THEN [hit |-> FALSE, ret |-> None, store |-> store]
        ELSE LET row == CHOOSE r \in rows : TRUE
                 age == t - strptime(row.created_at)
             IN  IF total_seconds_gt(age, CACHE_TTL_SECONDS)
                 THEN [hit |-> FALSE, ret |-> None, store |-> store \ {row}]
                 ELSE [hit |-> TRUE, ret |-> row.html, store |-> store]

cache_get_ttl_exclusive(store, k, t) ==
    LET rows == {row \in store : row.key = k}
    IN  IF rows = {} THEN [hit |-> FALSE, ret |-> None, store |-> store]
        ELSE LET row == CHOOSE r \in rows : TRUE
                 age == t - strptime(row.created_at)
             IN  IF age >= CACHE_TTL_SECONDS * TicksPerSec
                 THEN [hit |-> FALSE, ret |-> None, store |-> store]
                 ELSE [hit |-> TRUE, ret |-> row.html, store |-> store]

cache_get(store, k, t) ==
    LET rows == {row \in store : row.key = k}
    IN  IF rows = {} THEN [hit |-> FALSE, ret |-> None, store |-> store]
        ELSE LET row == CHOOSE r \in rows : TRUE
                 age == t - strptime(row.created_at)
             IN  IF total_seconds_gt(age, CACHE_TTL_SECONDS)
                 THEN [hit |-> FALSE, ret |-> None, store |-> store]
                 ELSE [hit |-> TRUE, ret |-> row.html, store |-> store]

\* INSERT OR REPLACE: the rows that conflict on the primary key are deleted,
\* then the new row is inserted with created_at = strftime(utcnow()).
cache_put_insert_only(store, k, html, t) ==
    store \cup {Row(k, html, strftime(t))}

cache_put_or_ignore(store, k, html, t) ==
    IF \E row \in store : row.key = k THEN store
    ELSE store \cup {Row(k, html, strftime(t))}

cache_put(store, k, html, t) ==
    {row \in store : row.key # k} \cup {Row(k, html, strftime(t))}

\* ------------------------------------------------------------ other state
reqVars == <<places_file, edits, req, putter>>
badgeVars == <<pop_in, pill, icon_in, icon, precip_in, precip_bg>>
cacheOpVars == <<last, putAt>>

\* ------------------------------------------- the direct cache operations
\* The keys and payloads the cache operations are exercised with: the keys
\* differ in one column each.
SigA == [mtime |-> 0, size |-> 2]
SigB == [mtime |-> 1, size |-> 2]
Keys == {CacheKey(0, 0, DEFAULT_TZ, DEFAULT_COUNTRY, DEFAULT_MODEL, SigA),
         CacheKey(0, 0, DEFAULT_TZ, DEFAULT_COUNTRY, DEFAULT_MODEL, SigB)}
Htmls == {"html1", "html2"}

\* The clock moves by half a second, by the TTL or by a day.
Steps == {1, CACHE_TTL_SECONDS * TicksPerSec, SecondsPerDay * TicksPerSec}

\* putAt[k]: the instant and payload of the latest cache_put on k that no
\* later prune has removed (NoPut when there is none).
NoPut == [t |-> -1, html |-> None]

NoOp == [op |-> "none", key |-> None, html |-> None, hit |-> FALSE,
         ret |-> None, deleted |-> {}]

\* ------------------------------------------------------------ places.txt
\* A record of places.txt: "Label, lat, lon" (degrees in thousandths).
AIVR == [label |-> "AIVR", lat |-> 13174, lon |-> 121278]
Calapan == [label |-> "Calapan", lat |-> 13411, lon |-> 121180]
Roxas == [label |-> "Roxas", lat |-> 12586, lon |-> 121520]

\* st_size of a file of n records, every line taking 20 bytes.
st_size(places) == 20 * Len(places)

FileContents == {<<AIVR, Calapan>>, <<AIVR, Roxas>>, <<AIVR>>}

PlacesFile(places, mtime) ==
    [places |-> places, mtime |-> mtime, size |-> st_size(places)]

\* The file is rewritten with other records; st_mtime becomes the current
\* time, of which places_signature keeps int(st_mtime).
EditPlaces ==
    /\ edits < MaxEdits
    /\ \E c \in FileContents :
          /\ c # places_file.places
          /\ places_file' = PlacesFile(c, now \div TicksPerSec)
    /\ edits' = edits + 1
    /\ UNCHANGED <<now, advances, rain_cache, req, putter, cacheOpVars,
                   badgeVars>>

\* ------------------------------------------------------ the forecast API
At(d, h) == [date |-> d, hour |-> h]

\* Bodies the forecast API may answer with for a request about date d: the
\* "hourly" object with its parallel arrays.
ReqResponses(d) ==
    {[time |-> <<At(d, 7), At(d + 1, 7)>>,
      precipitation |-> <<0, 0>>,
      precipitation_probability |-> <<Some(10), Some(10)>>,
      cloudcover |-> <<10 * PctUnit, 10 * PctUnit>>],
     [time |-> <<At(d, 7), At(d + 1, 7)>>,
      precipitation |-> <<LIGHT_MAX, 0>>,
      precipitation_probability |-> <<Some(60), Absent>>,
      cloudcover |-> <<90 * PctUnit, 10 * PctUnit>>]}

\* ---------------------------------------------------------------- index()
Reqs == {"r1", "r2"}

BaseParams(tz, country, model, nocache) ==
    [tz |-> tz, country |-> country, model |-> model, nocache |-> nocache]

NoHtml == [target_date |-> -1, min_date |-> -1, max_date |-> -1,
           base_params |-> BaseParams("", "", "", FALSE),
           head |-> <<>>, table |-> <<>>]

NoDate == [kind |-> "absent", d |-> 0]
DateArg(d) == [kind |-> "date", d |-> d]
GarbageDate == [kind |-> "garbage", d |-> 0]

\* The locals of index() before the request has read anything.
IdleReq ==
    [pc |-> "idle", tz |-> DEFAULT_TZ, country |-> DEFAULT_COUNTRY,
     model |-> DEFAULT_MODEL, nocache |-> FALSE, date_str |-> NoDate,
     qdate |-> 0, target_date |-> 0, places |-> <<>>,
     p_sig |-> [mtime |-> 0, size |-> 0], i |-> 0, cell_map |-> <<>>,
     time_index |-> <<>>, seen_hours |-> {}, html |-> NoHtml,
     status |-> 0, body |-> NoHtml, from_cache |-> FALSE,
     responses |-> <<>>]

RequestsIdle ==
    /\ places_file = PlacesFile(<<AIVR, Calapan>>, 0)
    /\ edits = 0
    /\ req = [r \in Reqs |-> IdleReq]
    /\ putter = None

NoIconArgs == [cloudcover_pct |-> 0, precipitation_mm |-> 0, hour |-> 0]

CellIdle ==
    /\ icon_in = NoIconArgs
    /\ icon = None
    /\ precip_in = 0
    /\ precip_bg = None

BadgeIdle ==
    /\ pop_in = Absent
    /\ pill = None
    /\ CellIdle

KeyOf_without_today(q) ==
    CacheKey(q.target_date, q.target_date, q.tz, q.country, q.model, q.p_sig)

\* The arguments of cache_get and cache_put in index(): query_date is the
\* request's "today", qdate.
KeyOf(q) == CacheKey(q.qdate, q.target_date, q.tz, q.country, q.model, q.p_sig)

Respond(q, status, body, from_cache) ==
    [q EXCEPT !.pc = "done", !.status = status, !.body = body,
              !.from_cache = from_cache]

\* index(), from the query parameters to cache_prune().
index_begin(r, tz_args, date_args, nocache_args) ==
    /\ req[r].pc = "idle"
    /\ \E tz \in tz_args, ds \in date_args, nc \in nocache_args :
          req' = [req EXCEPT ![r] = [IdleReq EXCEPT !.pc = "prepare",
                                        !.tz = tz, !.date_str = ds,
                                        !.nocache = nc]]
    /\ rain_cache' = cache_prune(rain_cache, utcnow)
    /\ UNCHANGED <<now, advances, places_file, edits, putter, cacheOpVars,
                   badgeVars>>

index_prepare_window_unchecked(r) ==
    LET q == req[r]
        qdate == safe_now_date_in_tz(q.tz, now)
        target_date == IF q.date_str.kind = "date" THEN q.date_str.d
                       ELSE qdate
        places == read_places_file(places_file)
        p_sig == places_signature(places_file)
        q1 == [q EXCEPT !.qdate = qdate]
        q2 == [q1 EXCEPT !.target_date = target_date, !.places = places,
                         !.p_sig = p_sig]
    IN  /\ q.pc = "prepare"
        /\ req' = [req EXCEPT ![r] =
              IF q.date_str.kind = "garbage"
              THEN Respond(q1, 400, NoHtml, FALSE)
              ELSE IF places = <<>>
              THEN Respond(q2, 500, NoHtml, FALSE)
              ELSE [q2 EXCEPT !.pc = IF q.nocache THEN "fetch" ELSE "get"]]
        /\ UNCHANGED <<now, advances, rain_cache, places_file, edits, putter,
                       cacheOpVars, badgeVars>>

\* index(), from "today" to the places file: the date is validated, then
\* places.txt is read and its signature taken.
index_prepare(r) ==
    LET q == req[r]
        qdate == safe_now_date_in_tz(q.tz, now)
        min_date == qdate
        max_date == qdate + FUTURE_DAYS_ALLOWED
        target_date == IF q.date_str.kind = "date" THEN q.date_str.d
                       ELSE qdate
        places == read_places_file(places_file)
        p_sig == places_signature(places_file)
        q1 == [q EXCEPT !.qdate = qdate]
        q2 == [q1 EXCEPT !.target_date = target_date, !.places = places,
                         !.p_sig = p_sig]
    IN  /\ q.pc = "prepare"
        /\ req' = [req EXCEPT ![r] =
              IF q.date_str.kind = "garbage"
              THEN Respond(q1, 400, NoHtml, FALSE)
              ELSE IF q.date_str.kind = "date"
                      /\ ~date_in_range(min_date, target_date, max_date)
              THEN Respond(q1, 400, NoHtml, FALSE)
              ELSE IF places = <<>>
              THEN Respond(q2, 500, NoHtml, FALSE)
              ELSE [q2 EXCEPT !.pc = IF q.nocache THEN "fetch" ELSE "get"]]
        /\ UNCHANGED <<now, advances, rain_cache, places_file, edits, putter,
                       cacheOpVars, badgeVars>>

\* index(): "Try cache first".
index_cache_get(r) ==
    LET q == req[r]
        res == cache_get(rain_cache, KeyOf(q), utcnow)
    IN  /\ q.pc = "get"
        /\ rain_cache' = res.store
        /\ req' = [req EXCEPT ![r] =
              IF res.hit THEN Respond(q, 200, res.ret, TRUE)
              ELSE [q EXCEPT !.pc = "fetch"]]
        /\ UNCHANGED <<now, advances, places_file, edits, putter,
                       cacheOpVars, badgeVars>>

index_fetch_skips_last(r, h) ==
    LET q == req[r]
        p == q.places[q.i + 1]
        hourly == hourly_forecast(h)
        acc == samples_loop([cells |-> <<>>, time_index |-> q.time_index,
                             seen_hours |-> q.seen_hours],
                            zip4(hourly.time, hourly.precip, hourly.pop,
                                 hourly.cloud),
                            1, q.target_date)
    IN  /\ q.pc = "fetch"
        /\ req' = [req EXCEPT ![r] =
              [q EXCEPT !.i = q.i + 1,
                        !.cell_map = [l \in DOMAIN q.cell_map \cup {p.label}
                            |-> IF l = p.label THEN acc.cells
                                ELSE q.cell_map[l]],
                        !.time_index = acc.time_index,
                        !.seen_hours = acc.seen_hours,
                        !.responses = Append(q.responses, h),
                        !.pc = IF q.i + 1 >= Len(q.places) - 1 THEN "build"
                               ELSE "fetch"]]
        /\ UNCHANGED <<now, advances, rain_cache, places_file, edits, putter,
                       cacheOpVars, badgeVars>>

\* index(): one turn of "for p in places", the forecast call answering h.
index_fetch(r, h) ==
    LET q == req[r]
        p == q.places[q.i + 1]
        hourly == hourly_forecast(h)
        acc == samples_loop([cells |-> <<>>, time_index |-> q.time_index,
                             seen_hours |-> q.seen_hours],
                            zip4(hourly.time, hourly.precip, hourly.pop,
                                 hourly.cloud),
                            1, q.target_date)
    IN  /\ q.pc = "fetch"
        /\ req' = [req EXCEPT ![r] =
              [q EXCEPT !.i = q.i + 1,
                        !.cell_map = [l \in DOMAIN q.cell_map \cup {p.label}
                            |-> IF l = p.label THEN acc.cells
                                ELSE q.cell_map[l]],
                        !.time_index = acc.time_index,
                        !.seen_hours = acc.seen_hours,
                        !.responses = Append(q.responses, h),
                        !.pc = IF q.i + 1 = Len(q.places) THEN "build"
                               ELSE "fetch"]]
        /\ UNCHANGED <<now, advances, rain_cache, places_file, edits, putter,
                       cacheOpVars, badgeVars>>

hourly_forecast_swallowed(r) ==
    LET q == req[r]
    IN  /\ q.pc = "fetch"
        /\ req' = [req EXCEPT ![r] =
              [q EXCEPT !.i = q.i + 1,
                        !.pc = IF q.i + 1 = Len(q.places) THEN "build"
                               ELSE "fetch"]]
        /\ UNCHANGED <<now, advances, rain_cache, places_file, edits, putter,
                       cacheOpVars, badgeVars>>

\* The forecast call raises (network failure, raise_for_status, a body
\* without "hourly"): nothing in index() catches it, the request ends 500.
hourly_forecast_raises(r) ==
    LET q == req[r]
    IN  /\ q.pc = "fetch"
        /\ req' = [req EXCEPT ![r] = Respond(q, 500, NoHtml, FALSE)]
        /\ UNCHANGED <<now, advances, rain_cache, places_file, edits, putter,
                       cacheOpVars, badgeVars>>

index_build_unsorted(r) ==
    LET q == req[r]
        html == render_html(q.target_date, q.qdate,
                            q.qdate + FUTURE_DAYS_ALLOWED, q.tz, q.model,
                            q.places, q.time_index, q.cell_map, FALSE,
                            q.nocache,
                            BaseParams(q.tz, q.country, q.model, q.nocache))
    IN  /\ q.pc = "build"
        /\ req' = [req EXCEPT ![r] =
              IF q.nocache
              THEN Respond([q EXCEPT !.html = html], 200, html, FALSE)
              ELSE [q EXCEPT !.html = html, !.pc = "put"]]
        /\ UNCHANGED <<now, advances, rain_cache, places_file, edits, putter,
                       cacheOpVars, badgeVars>>

index_build_always_put(r) ==
    LET q == req[r]
        time_index == list_sort(q.time_index)
        html == render_html(q.target_date, q.qdate,
                            q.qdate + FUTURE_DAYS_ALLOWED, q.tz, q.model,
                            q.places, time_index, q.cell_map, FALSE,
                            q.nocache,
                            BaseParams(q.tz, q.country, q.model, q.nocache))
        q1 == [q EXCEPT !.time_index = time_index, !.html = html]
    IN  /\ q.pc = "build"
        /\ req' = [req EXCEPT ![r] = [q1 EXCEPT !.pc = "put"]]
        /\ UNCHANGED <<now, advances, rain_cache, places_file, edits, putter,
                       cacheOpVars, badgeVars>>

\* index(): time_index.sort() and render_html(); with nocache the page is
\* returned without being stored.
index_build(r) ==
    LET q == req[r]
        time_index == list_sort(q.time_index)
        html == render_html(q.target_date, q.qdate,
                            q.qdate + FUTURE_DAYS_ALLOWED, q.tz, q.model,
                            q.places, time_index, q.cell_map, FALSE,
                            q.nocache,
                            BaseParams(q.tz, q.country, q.model, q.nocache))
        q1 == [q EXCEPT !.time_index = time_index, !.html = html]
    IN  /\ q.pc = "build"
        /\ req' = [req EXCEPT ![r] =
              IF q.nocache THEN Respond(q1, 200, html, FALSE)
              ELSE [q1 EXCEPT !.pc = "put"]]
        /\ UNCHANGED <<now, advances, rain_cache, places_file, edits, putter,
                       cacheOpVars, badgeVars>>

\* index(): "Store in cache", then the response.
index_cache_put(r) ==
    LET q == req[r]
    IN  /\ q.pc = "put"
        /\ rain_cache' = cache_put(rain_cache, KeyOf(q), q.html, utcnow)
        /\ putter' = r
        /\ req' = [req EXCEPT ![r] = Respond(q, 200, q.html, FALSE)]
        /\ UNCHANGED <<now, advances, places_file, edits, cacheOpVars,
                       badgeVars>>

\* A statement on the cache database raises sqlite3.Error (the file is
\* locked, unreadable or full): the transaction is rolled back, nothing in
\* index() catches the exception and the request ends 500.
cache_prune_raises(r, tz_args, date_args, nocache_args) ==
    /\ req[r].pc = "idle"
    /\ \E tz \in tz_args, ds \in date_args, nc \in nocache_args :
          req' = [req EXCEPT ![r] =
                     Respond([IdleReq EXCEPT !.tz = tz, !.date_str = ds,
                                             !.nocache = nc],
                             500, NoHtml, FALSE)]
    /\ UNCHANGED <<now, advances, rain_cache, places_file, edits, putter,
                   cacheOpVars, badgeVars>>

cache_get_raises(r) ==
    LET q == req[r]
    IN  /\ q.pc = "get"
        /\ req' = [req EXCEPT ![r] = Respond(q, 500, NoHtml, FALSE)]
        /\ UNCHANGED <<now, advances, rain_cache, places_file, edits, putter,
                       cacheOpVars, badgeVars>>

cache_put_raises(r) ==
    LET q == req[r]
    IN  /\ q.pc = "put"
        /\ req' = [req EXCEPT ![r] = Respond(q, 500, NoHtml, FALSE)]
        /\ UNCHANGED <<now, advances, rain_cache, places_file, edits, putter,
                       cacheOpVars, badgeVars>>

\* --------------------------------------------- two requests, concurrently
ReqDates == {NoDate, DateArg(1)}
\* The clock moves by just over the TTL.
ReqSteps == {CACHE_TTL_SECONDS * TicksPerSec + 1}
ReqNoCache == {FALSE}

InitReq ==
    /\ now = 0
    /\ advances = 0
    /\ rain_cache = {}
    /\ last = NoOp
    /\ putAt = [k \in Keys |-> NoPut]
    /\ RequestsIdle
    /\ BadgeIdle

AdvanceReq ==
    /\ advances < MaxReqAdvance
    /\ \E d \in ReqSteps : now' = now + d
    /\ advances' = advances + 1
    /\ UNCHANGED <<rain_cache, reqVars, cacheOpVars, badgeVars>>

ReqBegin == \E r \in Reqs : index_begin(r, {DEFAULT_TZ}, ReqDates, ReqNoCache)
ReqPrepare == \E r \in Reqs : index_prepare(r)
ReqCacheGet == \E r \in Reqs : index_cache_get(r)
ReqFetch ==
    \E r \in Reqs : \E h \in ReqResponses(req[r].target_date) :
        index_fetch(r, h)
ReqFetchRaises == \E r \in Reqs : hourly_forecast_raises(r)
ReqBuild == \E r \in Reqs : index_build(r)
ReqCachePut == \E r \in Reqs : index_cache_put(r)

NextReq ==
    \/ AdvanceReq \/ EditPlaces \/ ReqBegin \/ ReqPrepare \/ ReqCacheGet
    \/ ReqFetch \/ ReqFetchRaises \/ ReqBuild \/ ReqCachePut

SpecReq == InitReq /\ [][NextReq]_vars

\* Two requests, concurrently, while neither the clock nor places.txt
\* changes.
NextFlow ==
    \/ ReqBegin \/ ReqPrepare \/ ReqCacheGet \/ ReqFetch \/ ReqFetchRaises
    \/ ReqBuild \/ ReqCachePut

SpecFlow == InitReq /\ [][NextFlow]_vars

\* ------------------------------------------- one request, the date window
DateTzs == {DEFAULT_TZ, "UTC"}
DateArgs ==
    {NoDate, GarbageDate}
        \cup {DateArg(d) : d \in -1..(MaxAdvance + FUTURE_DAYS_ALLOWED + 2)}

\* The clock moves by half a second, to just before 16:00 UTC (midnight in
\* Manila) or by a day.
DateSteps == {1, 16 * 60 * 60 * TicksPerSec - 1, SecondsPerDay * TicksPerSec}

AdvanceDate ==
    /\ advances < MaxAdvance
    /\ \E d \in DateSteps : now' = now + d
    /\ advances' = advances + 1
    /\ UNCHANGED <<rain_cache, reqVars, cacheOpVars, badgeVars>>

DateBegin == index_begin("r1", DateTzs, DateArgs, ReqNoCache)
DatePrepare == index_prepare("r1")

NextDate == AdvanceDate \/ DateBegin \/ DatePrepare

SpecDate == InitReq /\ [][NextDate]_vars

\* ------------------------------------------- one request, the matrix build
\* The forecast answers with any ascending selection of these hours, of the
\* target date d and of the day after; the values depend on the hour.
BuildHours(d) == <<At(d, 0), At(d, 1), At(d, 13), At(d + 1, 0)>>

RECURSIVE Selections(_)
Selections(xs) ==
    IF xs = <<>> THEN {<<>>}
    ELSE LET rest == Selections(SubSeq(xs, 2, Len(xs)))
         IN  rest \cup {<<xs[1]>> \o ys : ys \in rest}

BuildResponses(d) ==
    {[time |-> ts,
      precipitation |-> [j \in 1..Len(ts) |->
          IF ts[j].hour = 1 THEN LIGHT_MAX ELSE 0],
      precipitation_probability |-> [j \in 1..Len(ts) |->
          IF ts[j].hour = 13 THEN Absent ELSE Some(40)],
      cloudcover |-> [j \in 1..Len(ts) |-> 50 * PctUnit]]
     : ts \in Selections(BuildHours(d))}

InitBuild ==
    /\ now = 0
    /\ advances = 0
    /\ rain_cache = {}
    /\ last = NoOp
    /\ putAt = [k \in Keys |-> NoPut]
    /\ places_file = PlacesFile(<<AIVR, Calapan, Roxas>>, 0)
    /\ edits = 0
    /\ req = [r \in Reqs |-> IdleReq]
    /\ putter = None
    /\ BadgeIdle

BuildBegin == index_begin("r1", {DEFAULT_TZ}, {NoDate}, ReqNoCache)
BuildPrepare == index_prepare("r1")
BuildCacheGet == index_cache_get("r1")
BuildFetch ==
    \E h \in BuildResponses(req["r1"].target_date) : index_fetch("r1", h)
BuildBuild == index_build("r1")
BuildCachePut == index_cache_put("r1")

NextBuild ==
    \/ BuildBegin \/ BuildPrepare \/ BuildCacheGet \/ BuildFetch
    \/ BuildBuild \/ BuildCachePut

SpecBuild == InitBuild /\ [][NextBuild]_vars

\* --------------------------------------------------- the badge colour alone
PopValues == {Absent} \cup {Some(v) : v \in 0..100}

InitTier ==
    /\ now = 0
    /\ advances = 0
    /\ rain_cache = {}
    /\ last = NoOp
    /\ putAt = [k \in Keys |-> NoPut]
    /\ RequestsIdle
    /\ pop_in \in PopValues
    /\ pill = None
    /\ CellIdle

ApplyPill ==
    /\ pill = None
    /\ pill' = pill_bg(pop_in)
    /\ UNCHANGED <<now, advances, rain_cache, cacheOpVars, reqVars, pop_in,
                   icon_in, icon, precip_in, precip_bg>>

NextTier == ApplyPill

SpecTier == InitTier /\ [][NextTier]_vars

\* ------------------------------- one request, arriving at a filled cache
\* The request arrives one to three days after the cache was created, on
\* either side of the retention cutoff.
RejectNows ==
    {SecondsPerDay * TicksPerSec,
     CACHE_RETENTION_DAYS * SecondsPerDay * TicksPerSec,
     CACHE_RETENTION_DAYS * SecondsPerDay * TicksPerSec + 1,
     (CACHE_RETENTION_DAYS * SecondsPerDay + 1) * TicksPerSec,
     (CACHE_RETENTION_DAYS + 1) * SecondsPerDay * TicksPerSec}

\* A page an earlier request stored at second s: of the places of the file
\* and of a forecast without a sample for the day.
StoredRow(s) ==
    LET qd == safe_now_date_in_tz(DEFAULT_TZ, strptime(s))
    IN  Row(CacheKey(qd, qd, DEFAULT_TZ, DEFAULT_COUNTRY, DEFAULT_MODEL,
                     places_signature(PlacesFile(<<AIVR, Calapan>>, 0))),
            render_html(qd, qd, qd + FUTURE_DAYS_ALLOWED, DEFAULT_TZ,
                        DEFAULT_MODEL, <<AIVR, Calapan>>, <<>>, <<>>, FALSE,
                        FALSE,
                        BaseParams(DEFAULT_TZ, DEFAULT_COUNTRY, DEFAULT_MODEL,
                                   FALSE)),
            s)

\* The cache holds any of: a row stored at second 0, a row stored half an
\* hour before the request.
RejectStores(t) ==
    SUBSET {StoredRow(0), StoredRow(strftime(t) - CACHE_TTL_SECONDS \div 2)}

RejectDates ==
    {NoDate, GarbageDate}
        \cup {DateArg(d) : d \in -1..(CACHE_RETENTION_DAYS + 1
                                         + FUTURE_DAYS_ALLOWED + 1)}

InitReject ==
    /\ now \in RejectNows
    /\ advances = 0
    /\ rain_cache \in RejectStores(now)
    /\ last = NoOp
    /\ putAt = [k \in Keys |-> NoPut]
    /\ RequestsIdle
    /\ BadgeIdle

RejectBegin == index_begin("r1", {DEFAULT_TZ}, RejectDates, ReqNoCache)
RejectPrepare == index_prepare("r1")
RejectCacheGet == index_cache_get("r1")
RejectFetch ==
    \E h \in ReqResponses(req["r1"].target_date) : index_fetch("r1", h)
RejectBuild == index_build("r1")
RejectCachePut == index_cache_put("r1")

NextReject ==
    \/ RejectBegin \/ RejectPrepare \/ RejectCacheGet \/ RejectFetch
    \/ RejectBuild \/ RejectCachePut

SpecReject == InitReject /\ [][NextReject]_vars

\* ------------------------------- one request, the cache database failing
StoreFailDates == {NoDate, GarbageDate, DateArg(CACHE_RETENTION_DAYS)}

StoreFailBegin == index_begin("r1", {DEFAULT_TZ}, StoreFailDates, ReqNoCache)
StoreFailPruneRaises ==
    cache_prune_raises("r1", {DEFAULT_TZ}, StoreFailDates, ReqNoCache)

NextStoreFail ==
    \/ StoreFailBegin \/ RejectPrepare \/ RejectCacheGet \/ RejectFetch
    \/ RejectBuild \/ RejectCachePut
    \/ StoreFailPruneRaises \/ cache_get_raises("r1") \/ cache_put_raises("r1")

SpecStoreFail == InitReject /\ [][NextStoreFail]_vars

\* ------------------------------------- one request, with or without nocache
NoCacheArgs == {TRUE, FALSE}

NoCacheBegin == index_begin("r1", {DEFAULT_TZ}, {NoDate}, NoCacheArgs)

NextNoCache ==
    \/ NoCacheBegin \/ RejectPrepare \/ RejectCacheGet \/ RejectFetch
    \/ RejectBuild \/ RejectCachePut

SpecNoCache == InitReject /\ [][NextNoCache]_vars

\* ------------------------------------ two requests, around local midnight
\* The clock stands half a second before 16:00 UTC, midnight in Manila, and
\* moves in steps of half a second; the requests ask for today or for day 1.
MidnightUTC == 16 * 60 * 60

InitMidnight ==
    /\ now = MidnightUTC * TicksPerSec - 1
    /\ advances = 0
    /\ rain_cache = {}
    /\ last = NoOp
    /\ putAt = [k \in Keys |-> NoPut]
    /\ RequestsIdle
    /\ BadgeIdle

AdvanceMidnight ==
    /\ advances < MaxReqAdvance
    /\ now' = now + 1
    /\ advances' = advances + 1
    /\ UNCHANGED <<rain_cache, reqVars, cacheOpVars, badgeVars>>

NextMidnight ==
    \/ AdvanceMidnight \/ ReqBegin \/ ReqPrepare \/ ReqCacheGet \/ ReqFetch
    \/ ReqBuild \/ ReqCachePut

SpecMidnight == InitMidnight /\ [][NextMidnight]_vars

\* ------------------------------ one request, hourly arrays of any length
\* The first n of the values xs.
Take(xs, n) == SubSeq(xs, 1, n)

\* The forecast answers with two hours of date d; the precipitation and
\* cloud cover arrays hold one, two or three values, the probability array
\* none (the key is missing), one, two or three.
ShapeResponses(d) ==
    {[time |-> <<At(d, 7), At(d, 8)>>,
      precipitation |-> Take(<<LIGHT_MAX, 0, MODERATE_MAX>>, np),
      precipitation_probability |-> Take(<<Some(60), Some(10), Some(90)>>, nq),
      cloudcover |-> Take(<<90 * PctUnit, 10 * PctUnit, 50 * PctUnit>>, nc)]
     : np \in 1..3, nq \in 0..3, nc \in 1..3}

ShapeFetch ==
    \E h \in ShapeResponses(req["r1"].target_date) : index_fetch("r1", h)

NextShape ==
    \/ BuildBegin \/ BuildPrepare \/ BuildCacheGet \/ ShapeFetch
    \/ BuildBuild \/ BuildCachePut

SpecShape == InitReq /\ [][NextShape]_vars

\* ------------------------------------------------------ weather_icon alone
\* The thresholds of the decision tree, the values just above them and the
\* ends of the scales; the hours around both ends of the day.
IconPrecips ==
    {0, 1, LIGHT_MAX, LIGHT_MAX + 1, MODERATE_MAX, MODERATE_MAX + 1,
     20 * MmUnit}
IconClouds ==
    {0, CLEAR_MAX, CLEAR_MAX + 1, PARTLY_MAX, PARTLY_MAX + 1, 100 * PctUnit}
IconHours ==
    {0, DAY_START_HOUR - 1, DAY_START_HOUR, 12, DAY_END_HOUR - 1, DAY_END_HOUR,
     23}

InitIcon ==
    /\ now = 0
    /\ advances = 0
    /\ rain_cache = {}
    /\ last = NoOp
    /\ putAt = [k \in Keys |-> NoPut]
    /\ RequestsIdle
    /\ pop_in = Absent
    /\ pill = None
    /\ icon_in \in [cloudcover_pct : IconClouds, precipitation_mm : IconPrecips,
                    hour : IconHours]
    /\ icon = None
    /\ precip_in = 0
    /\ precip_bg = None

ApplyIcon ==
    /\ icon = None
    /\ icon' = weather_icon(icon_in.cloudcover_pct, icon_in.precipitation_mm,
                            At(0, icon_in.hour))
    /\ UNCHANGED <<now, advances, rain_cache, cacheOpVars, reqVars, pop_in,
                   pill, icon_in, precip_in, precip_bg>>

NextIcon == ApplyIcon

SpecIcon == InitIcon /\ [][NextIcon]_vars

\* --------------------------------------------------- precip_bg_color alone
\* Precipitation from below zero to beyond the scale, in tenths of a
\* millimetre.
MaxColourTenths == 90
ColourPrecips == {k * (MmUnit \div 10) : k \in -1..MaxColourTenths}

InitColour ==
    /\ now = 0
    /\ advances = 0
    /\ rain_cache = {}
    /\ last = NoOp
    /\ putAt = [k \in Keys |-> NoPut]
    /\ RequestsIdle
    /\ pop_in = Absent
    /\ pill = None
    /\ icon_in = NoIconArgs
    /\ icon = None
    /\ precip_in \in ColourPrecips
    /\ precip_bg = None

ApplyColour ==
    /\ precip_bg = None
    /\ precip_bg' = precip_bg_color(precip_in)
    /\ UNCHANGED <<now, advances, rain_cache, cacheOpVars, reqVars, pop_in,
                   pill, icon_in, icon, precip_in>>

NextColour == ApplyColour

SpecColour == InitColour /\ [][NextColour]_vars

\* ------------------------------------------------- cache operations, direct
InitCache ==
    /\ now = 0
    /\ advances = 0
    /\ rain_cache = {}
    /\ last = NoOp
    /\ putAt = [k \in Keys |-> NoPut]
    /\ RequestsIdle
    /\ BadgeIdle

Advance ==
    /\ advances < MaxAdvance
    /\ \E d \in Steps : now' = now + d
    /\ advances' = advances + 1
    /\ last' = NoOp
    /\ UNCHANGED <<rain_cache, putAt, reqVars, badgeVars>>

PutOp ==
    \E k \in Keys, h \in Htmls :
        /\ rain_cache' = cache_put(rain_cache, k, h, utcnow)
        /\ last' = [op |-> "put", key |-> k, html |-> h, hit |-> FALSE,
                    ret |-> None,
                    deleted |-> {row \in rain_cache : row.key = k}]
        /\ putAt' = [putAt EXCEPT ![k] = [t |-> utcnow, html |-> h]]
        /\ UNCHANGED <<now, advances, reqVars, badgeVars>>

GetOp ==
    \E k \in Keys :
        LET res == cache_get(rain_cache, k, utcnow)
        IN  /\ rain_cache' = res.store
            /\ last' = [op |-> "get", key |-> k, html |-> None,
                        hit |-> res.hit, ret |-> res.ret,
                        deleted |-> rain_cache \ res.store]
            /\ UNCHANGED <<now, advances, putAt, reqVars, badgeVars>>

PruneOp ==
    /\ rain_cache' = cache_prune(rain_cache, utcnow)
    /\ last' = [op |-> "prune", key |-> None, html |-> None, hit |-> FALSE,
                ret |-> None,
                deleted |-> rain_cache \ rain_cache']
    /\ putAt' = [k \in Keys |->
                    IF \E row \in rain_cache \ rain_cache' : row.key = k
                    THEN NoPut ELSE putAt[k]]
    /\ UNCHANGED <<now, advances, reqVars, badgeVars>>

NextCache == Advance \/ PutOp \/ GetOp \/ PruneOp

SpecCache == InitCache /\ [][NextCache]_vars

\* ============================================================ claims, cache
TTLTicks == CACHE_TTL_SECONDS * TicksPerSec
RetentionTicks == CACHE_RETENTION_DAYS * SecondsPerDay * TicksPerSec
RowsOf(k) == {row \in rain_cache : row.key = k}

\* C1 as stated: after cache_put(k, p) at time T with no later put or prune
\* affecting k, cache_get(k) at time T' returns p when T' - T <= 3600 s and
\* a miss when T' - T > 3600 s.
C1_GetWithinTTLOfPutTime ==
    (last.op = "get" /\ putAt[last.key] # NoPut) =>
        /\ (now - putAt[last.key].t <= TTLTicks
                => last.hit /\ last.ret = putAt[last.key].html)
        /\ (now - putAt[last.key].t > TTLTicks => ~last.hit)

\* C1 amended: the age is measured from the put time truncated to whole
\* seconds (the stored created_at): cache_get(k) at time T' returns p when
\* T' - floor(T) <= 3600 s and a miss when T' - floor(T) > 3600 s.
C1_GetWithinTTLOfStoredSecond ==
    (last.op = "get" /\ putAt[last.key] # NoPut) =>
        LET T == putAt[last.key].t
            stored == (T \div TicksPerSec) * TicksPerSec
        IN  /\ (now - stored <= TTLTicks
                    => last.hit /\ last.ret = putAt[last.key].html)
            /\ (now - stored > TTLTicks => ~last.hit)

\* A get exactly one TTL after a put on a whole second, which hits.
C1_Witness ==
    /\ last.op = "get"
    /\ putAt[last.key] # NoPut
    /\ now - putAt[last.key].t = TTLTicks
    /\ last.hit
    /\ last.ret = putAt[last.key].html

\* C2: the store holds at most one row per six-column key, and cache_put(k,
\* p2) over an existing row leaves exactly one row for k, with payload p2 and
\* created_at the (second-resolution) time of this put, and every row of
\* another key as it was.
C2_PutReplacesWholeRow ==
    /\ [](\A r1, r2 \in rain_cache : r1.key = r2.key => r1 = r2)
    /\ [][last'.op = "put" =>
            /\ {row \in rain_cache' : row.key = last'.key}
                 = {Row(last'.key, last'.html, strftime(now'))}
            /\ {row \in rain_cache' : row.key # last'.key}
                 = {row \in rain_cache : row.key # last'.key}]_vars

\* A put that replaced a row with another payload and an older created_at.
C2_Witness ==
    /\ last.op = "put"
    /\ \E old \in last.deleted :
          /\ old.key = last.key
          /\ old.html # last.html
          /\ old.created_at # strftime(now)
    /\ Cardinality(rain_cache) = 2

\* C3 as stated: cache_prune at time T deletes exactly the rows whose
\* created_at is earlier than T minus 2 days.
C3_PruneCutoffAtInstant ==
    [][last'.op = "prune" =>
        rain_cache' = {row \in rain_cache :
            ~(strptime(row.created_at) < now - RetentionTicks)}]_vars

\* C3 amended: cache_prune at time T deletes exactly the rows whose
\* created_at is earlier than T, truncated to whole seconds, minus 2 days,
\* fresh or not, and leaves every other row unchanged; a row 3 days old is
\* removed and a row 1 day old survives.
C3_PruneCutoffAtSecond ==
    [][last'.op = "prune" =>
        LET T == now \div TicksPerSec
        IN  /\ \A row \in rain_cache :
                  row \in rain_cache' <=>
                      row.created_at >= T - CACHE_RETENTION_DAYS * SecondsPerDay
            /\ rain_cache' \subseteq rain_cache
            /\ \A row \in rain_cache :
                  /\ row.created_at = T - 3 * SecondsPerDay
                        => row \notin rain_cache'
                  /\ row.created_at = T - SecondsPerDay
                        => row \in rain_cache']_vars

\* A prune that removed a row 3 days old and kept a row 1 day old.
C3_Witness ==
    /\ last.op = "prune"
    /\ \E row \in last.deleted :
          row.created_at = strftime(now) - 3 * SecondsPerDay
    /\ \E row \in rain_cache :
          row.created_at = strftime(now) - SecondsPerDay

\* C4: cache_get never modifies the store; a get on an expired row reports a
\* miss and leaves the row in place; a row leaves the store only through
\* cache_prune, or through a cache_put on its own key.
C4_GetLeavesStore ==
    [][/\ last'.op = "get" => rain_cache' = rain_cache
       /\ \A row \in rain_cache \ rain_cache' :
             \/ last'.op = "prune"
             \/ last'.op = "put" /\ last'.key = row.key]_vars

\* A get that missed on a row that is older than the TTL and still stored.
C4_Witness ==
    /\ last.op = "get"
    /\ ~last.hit
    /\ \E row \in RowsOf(last.key) : now - strptime(row.created_at) > TTLTicks

\* ========================================================= claims, requests
Labels(places) == {places[j].label : j \in 1..Len(places)}
HeadOf(places) == [j \in 1..Len(places) |-> places[j].label]

\* The request built its page from the forecasts and stored it.
BuiltAndPut(r) ==
    /\ req[r].pc = "done"
    /\ req[r].status = 200
    /\ ~req[r].from_cache
    /\ ~req[r].nocache

\* C5: when two requests with the identical cache key have both run the
\* whole pipeline, in whatever interleaving, the store holds exactly one row
\* for the key, and its payload is the complete page of the request whose
\* cache_put executed last.
C5_LastWriterWins ==
    (BuiltAndPut("r1") /\ BuiltAndPut("r2")
         /\ KeyOf(req["r1"]) = KeyOf(req["r2"])) =>
        /\ putter \in Reqs
        /\ \E row \in rain_cache :
              /\ RowsOf(KeyOf(req["r1"])) = {row}
              /\ row.html = req[putter].html
              /\ row.html.head = HeadOf(req[putter].places)
              /\ \A i \in 1..Len(row.html.table) :
                    Len(row.html.table[i].cells) = Len(req[putter].places)

\* Both requests missed while no time passed, built different pages for the
\* same key and stored them.
C5_Witness ==
    /\ BuiltAndPut("r1") /\ BuiltAndPut("r2")
    /\ KeyOf(req["r1"]) = KeyOf(req["r2"])
    /\ req["r1"].html # req["r2"].html
    /\ advances = 0
    /\ putter = "r1"

\* C6: when the forecast call of any location fails, the request ends
\* there as an error and never stores anything; a request stores a page
\* only after the forecast of every one of its locations has arrived.
C6_FailedFetchStoresNothing ==
    [][\A r \in Reqs :
        /\ (req[r].pc = "fetch" /\ req'[r].status = 500) =>
              /\ req'[r].pc = "done"
              /\ rain_cache' = rain_cache
        /\ req[r].status = 500 => req'[r] = req[r]
        /\ (req[r].pc = "put" /\ req'[r].pc = "done") =>
              /\ Len(req[r].responses) = Len(req[r].places)
              /\ DOMAIN req[r].cell_map = Labels(req[r].places)]_vars

\* A request whose second forecast call failed; nothing is stored for its key.
C6_Witness ==
    \E r \in Reqs :
        /\ req[r].status = 500
        /\ Len(req[r].responses) = 1
        /\ Len(req[r].places) = 2
        /\ RowsOf(KeyOf(req[r])) = {}

\* C8 as stated: every change of the content of the location source changes
\* the signature, so a request that has read the current content is never
\* served a page cached for other content: it misses and recomputes.
C8_HitShowsCurrentPlaces ==
    \A r \in Reqs :
        (req[r].pc = "done" /\ req[r].from_cache
             /\ req[r].places = places_file.places) =>
            req[r].body.head = HeadOf(req[r].places)

\* C8 amended: rewriting the location source changes the signature exactly
\* when it changes the file's size or its modification time in whole
\* seconds, and a request is served a cached page only from a row stored
\* under the signature it computed itself.
C8_SignatureIsSecondAndSize ==
    /\ [][places_file' # places_file =>
            (places_signature(places_file') # places_signature(places_file)
                <=> (places_file'.size # places_file.size
                        \/ places_file'.mtime # places_file.mtime))]_vars
    /\ [][\A r \in Reqs :
            (req[r].pc = "get" /\ req'[r].from_cache) =>
                \E row \in rain_cache :
                    /\ row.key.places_sig = req[r].p_sig
                    /\ row.key = KeyOf(req[r])
                    /\ row.html = req'[r].body]_vars

\* After an edit that changed the signature a request missed and stored a
\* second row, which differs from the first in places_sig alone.
C8_Witness ==
    \E r1, r2 \in rain_cache :
        /\ r1.key.places_sig # r2.key.places_sig
        /\ [r1.key EXCEPT !.places_sig = r2.key.places_sig] = r2.key
        /\ r1.html.head # r2.html.head

\* ===================================================== claims, date window
\* C7: a request's date d is accepted if and only if today <= d <= today+4,
\* today being the current date in the requested time zone; today and
\* today+4 are accepted, today-1 and today+5 are answered 400.
C7_DateWindow ==
    /\ [](LET q == req["r1"]
              d == q.date_str.d
              accepted == q.pc \in {"get", "fetch"} /\ q.target_date = d
              rejected == q.pc = "done" /\ q.status = 400
          IN  (q.pc \notin {"idle", "prepare"} /\ q.date_str.kind = "date") =>
                /\ accepted <=> (q.qdate <= d /\ d <= q.qdate + 4)
                /\ rejected <=> ~accepted
                /\ d = q.qdate => accepted
                /\ d = q.qdate + 4 => accepted
                /\ d = q.qdate - 1 => rejected
                /\ d = q.qdate + 5 => rejected)
    /\ [][(req["r1"].pc = "prepare" /\ req'["r1"].pc # "prepare") =>
            LET local == (now \div TicksPerSec)
                            + UtcOffsetSeconds(req["r1"].tz)
                today == req'["r1"].qdate
            IN  /\ today * SecondsPerDay <= local
                /\ local < (today + 1) * SecondsPerDay]_vars

\* A request for today+4, made when the date in Manila is a day ahead of
\* the date in UTC, is accepted.
C7_Witness ==
    LET q == req["r1"]
    IN  /\ q.pc = "get"
        /\ q.date_str.kind = "date"
        /\ q.date_str.d = q.qdate + 4
        /\ q.tz = DEFAULT_TZ
        /\ q.qdate = safe_now_date_in_tz("UTC", now) + 1

\* ====================================================== claims, time index
AllTimes(responses) ==
    UNION {{responses[i].time[j] : j \in 1..Len(responses[i].time)} :
              i \in 1..Len(responses)}

\* C9: the time index of a built page holds exactly the hours of the target
\* date found in any location's samples, each once, in strictly ascending
\* order, whatever the order in which the locations brought them.
C9_TimeIndexSortedUnion ==
    LET q == req["r1"]
    IN  (q.pc = "put" \/ (q.pc = "done" /\ q.status = 200 /\ ~q.from_cache)) =>
           /\ {q.time_index[i] : i \in 1..Len(q.time_index)}
                = {t \in AllTimes(q.responses) : t.date = q.target_date}
           /\ \A i, j \in 1..Len(q.time_index) :
                 i < j => dt_lt(q.time_index[i], q.time_index[j])
           /\ Len(q.html.table) = Len(q.time_index)
           /\ \A i \in 1..Len(q.time_index) :
                 q.html.table[i].time = q.time_index[i]

\* Three locations with overlapping hours, the earliest hour arriving last.
C9_Witness ==
    LET q == req["r1"]
    IN  /\ q.pc = "put"
        /\ Len(q.responses) = 3
        /\ q.responses[1].time = <<At(q.target_date, 1), At(q.target_date, 13)>>
        /\ q.responses[2].time = <<At(q.target_date, 13), At(q.target_date + 1, 0)>>
        /\ q.responses[3].time = <<At(q.target_date, 0), At(q.target_date, 1)>>
        /\ Len(q.time_index) = 3

\* ============================================================ claims, badge
\* C10: the badge is white for pop < 30, green for 30..50, yellow for
\* 51..80 and red above 80, for every integer pop in 0..100; 30 and 50 are
\* green, 51 and 80 yellow, 81 red.
C10_PopTiers ==
    (pill # None /\ pop_in # Absent) =>
        LET pop == pop_in[1]
        IN  /\ pop < 30 => pill = POP_WHITE
            /\ (30 <= pop /\ pop <= 50) => pill = POP_GREEN
            /\ (51 <= pop /\ pop <= 80) => pill = POP_YELLOW
            /\ pop > 80 => pill = POP_RED
            /\ pop \in {0, 29} => pill = "#FFFFFF"
            /\ pop \in {30, 50} => pill = "#D1E7DD"
            /\ pop \in {51, 80} => pill = "#FFF3CD"
            /\ pop \in {81, 100} => pill = "#F8D7DA"
            /\ Cardinality({POP_WHITE, POP_GREEN, POP_YELLOW, POP_RED}) = 4

\* The badge of pop = 50 has been derived and is green.
C10_Witness == pop_in = Some(50) /\ pill = POP_GREEN

\* ============================================================ claims, icon
\* The classes of the decision tree as the specification states them, each
\* by its own condition on the input, and the glyph of each class.
IconClassNames ==
    {"light_rain_day", "light_rain_night", "rain", "storm", "clear_day",
     "clear_night", "partly_day", "partly_night", "cloudy"}

InIconClass(c, a) ==
    LET p == a.precipitation_mm
        cc == a.cloudcover_pct
        day == 6 <= a.hour /\ a.hour < 18
        light == p > 0 /\ 10 * p <= 25 * MmUnit
    IN  CASE c = "light_rain_day" -> light /\ day
          [] c = "light_rain_night" -> light /\ ~day
          [] c = "rain" -> 10 * p > 25 * MmUnit /\ 10 * p <= 75 * MmUnit
          [] c = "storm" -> 10 * p > 75 * MmUnit
          [] c = "clear_day" -> p = 0 /\ cc <= 25 * PctUnit /\ day
          [] c = "clear_night" -> p = 0 /\ cc <= 25 * PctUnit /\ ~day
          [] c = "partly_day" ->
                p = 0 /\ cc > 25 * PctUnit /\ cc <= 60 * PctUnit /\ day
          [] c = "partly_night" ->
                p = 0 /\ cc > 25 * PctUnit /\ cc <= 60 * PctUnit /\ ~day
          [] c = "cloudy" -> p = 0 /\ cc > 60 * PctUnit

IconOfClass(c) ==
    CASE c = "light_rain_day" -> "sun_behind_rain_cloud"
      [] c = "light_rain_night" -> "cloud_with_rain"
      [] c = "rain" -> "cloud_with_rain"
      [] c = "storm" -> "cloud_with_lightning_and_rain"
      [] c = "clear_day" -> "sun"
      [] c = "clear_night" -> "crescent_moon"
      [] c = "partly_day" -> "sun_behind_small_cloud"
      [] c = "partly_night" -> "crescent_moon_cloud"
      [] c = "cloudy" -> "cloud"

\* C11: weather_icon follows the decision tree: every input lies in exactly
\* one class (light rain by day or by night up to 2.5 mm, rain up to 7.5 mm,
\* storm above, whatever the cloud cover; without precipitation clear up to
\* 25 %, partly cloudy up to 60 %, each by day or by night, cloudy above),
\* the icon returned is the icon of that class, and hours 5 and 18 take the
\* night variant while 6 and 17 take the day variant.
C11_IconDecisionTree ==
    icon # None =>
        /\ Cardinality({c \in IconClassNames : InIconClass(c, icon_in)}) = 1
        /\ \A c \in IconClassNames :
              InIconClass(c, icon_in) => icon = IconOfClass(c)
        /\ icon_in.hour \in {5, 18} =>
              icon \notin {"sun_behind_rain_cloud", "sun",
                           "sun_behind_small_cloud"}
        /\ icon_in.hour \in {6, 17} =>
              icon \notin {"crescent_moon", "crescent_moon_cloud"}
        /\ (icon_in.hour \in {6, 17} /\ InIconClass("light_rain_day", icon_in))
              => icon = "sun_behind_rain_cloud"

\* Exactly 2.5 mm under full cloud cover at 18:00: light rain, night variant.
C11_Witness ==
    /\ icon_in = [cloudcover_pct |-> 100 * PctUnit,
                  precipitation_mm |-> LIGHT_MAX, hour |-> 18]
    /\ icon = "cloud_with_rain"

\* ========================================================== claims, colour
Lo(a, b) == IF a <= b THEN a ELSE b
Hi(a, b) == IF a <= b THEN b ELSE a

\* Channel c of colour x has not passed channel c of colour y on the way
\* from the base colour to the alert colour.
NotPast(x, y, c) ==
    LET base == _hex_to_rgb(SKYBLUE)[c]
        alert == _hex_to_rgb(VIOLET)[c]
    IN  IF base <= alert THEN _hex_to_rgb(x)[c] <= _hex_to_rgb(y)[c]
        ELSE _hex_to_rgb(x)[c] >= _hex_to_rgb(y)[c]

ColourEndpoints ==
    /\ precip_in = 0 => precip_bg = SKYBLUE
    /\ precip_in >= 7 * MmUnit => precip_bg = VIOLET

ColourMonotone ==
    \A q \in ColourPrecips : \A c \in 1..3 :
        q <= precip_in => NotPast(precip_bg_color(q), precip_bg, c)

\* C12 as stated: base colour at 0 mm, alert colour from 7 mm on, every
\* channel strictly between its base and alert values for 0 < p < 7, and
\* every channel monotone toward the alert colour as p grows.
C12_ChannelsStrictlyBetween ==
    precip_bg # None =>
        /\ ColourEndpoints
        /\ (0 < precip_in /\ precip_in < 7 * MmUnit) =>
              \A c \in 1..3 :
                 LET base == _hex_to_rgb(SKYBLUE)[c]
                     alert == _hex_to_rgb(VIOLET)[c]
                     v == _hex_to_rgb(precip_bg)[c]
                 IN  Lo(base, alert) < v /\ v < Hi(base, alert)
        /\ ColourMonotone

\* C12, amended: base colour at 0 mm, alert colour from 7 mm on, every
\* channel between its base and alert values, these included, for
\* 0 < p < 7, and every channel monotone toward the alert colour.
C12_ChannelsBetween ==
    precip_bg # None =>
        /\ ColourEndpoints
        /\ (0 < precip_in /\ precip_in < 7 * MmUnit) =>
              \A c \in 1..3 :
                 LET base == _hex_to_rgb(SKYBLUE)[c]
                     alert == _hex_to_rgb(VIOLET)[c]
                     v == _hex_to_rgb(precip_bg)[c]
                 IN  Lo(base, alert) <= v /\ v <= Hi(base, alert)
        /\ ColourMonotone

\* 0.1 mm: red and blue are still the base colour's, green has moved.
C12_Witness ==
    /\ precip_in = MmUnit \div 10
    /\ precip_bg # None
    /\ _hex_to_rgb(precip_bg)[1] = _hex_to_rgb(SKYBLUE)[1]
    /\ _hex_to_rgb(precip_bg)[2] < _hex_to_rgb(SKYBLUE)[2]

RECURSIVE GCD(_, _)
GCD(a, b) == IF b = 0 THEN a ELSE GCD(b, a % b)

\* The same quotient in lowest terms.
Lowest(x) ==
    LET g == GCD(x.num, x.den)
    IN  Quot(x.num \div g, x.den \div g)

\* C20: for every p in [0, 7) precip_bg_color(p) is the smoothstep-eased
\* blend of the base and alert colours at t = p / 7.0, the colour
\* _lerp_color gives, not the plain linear blend.
C20_SmoothstepBlend ==
    (precip_bg # None /\ 0 <= precip_in /\ precip_in < 7 * MmUnit) =>
        precip_bg = _lerp_color(SKYBLUE, VIOLET,
                                Lowest(Quot(precip_in, 7 * MmUnit)))

\* ==================================================== claims, request flow
\* The successions of positions the flow of the specification allows; with
\* nocache the two cache steps are left out.
FlowOrder ==
    {<<"idle", "prepare">>, <<"prepare", "done">>, <<"prepare", "get">>,
     <<"get", "done">>, <<"get", "fetch">>, <<"fetch", "fetch">>,
     <<"fetch", "done">>, <<"fetch", "build">>, <<"build", "put">>,
     <<"put", "done">>}

FlowOrderNoCache ==
    {<<"idle", "prepare">>, <<"prepare", "done">>, <<"prepare", "fetch">>,
     <<"fetch", "fetch">>, <<"fetch", "done">>, <<"fetch", "build">>,
     <<"build", "done">>}

FlowStep(r) ==
    LET q == req[r]
        q1 == req'[r]
        N == Len(q.places)
    IN  q1 # q =>
          /\ <<q.pc, q1.pc>> \in
                 (IF q1.nocache THEN FlowOrderNoCache ELSE FlowOrder)
          \* the cache is consulted only for a validated date
          /\ q1.pc = "get" =>
                /\ q1.date_str.kind # "garbage"
                /\ date_in_range(q1.qdate, q1.target_date,
                                 q1.qdate + FUTURE_DAYS_ALLOWED)
          \* a hit: the stored payload, no fetch, no put
          /\ (q.pc = "get" /\ q1.pc = "done") =>
                /\ q1.status = 200 /\ q1.from_cache
                /\ \E row \in rain_cache :
                      row.key = KeyOf(q) /\ row.html = q1.body
                /\ q1.responses = <<>> /\ q1.i = 0
                /\ rain_cache' = rain_cache
          \* a miss: the locations are fetched one by one, in order
          /\ (q.pc = "get" /\ q1.pc = "fetch") =>
                /\ q1.responses = <<>> /\ q1.i = 0
                /\ rain_cache' = rain_cache
          /\ (q.pc = "fetch" /\ q1.pc \in {"fetch", "build"}) =>
                /\ q.i < N
                /\ q1.i = q.i + 1
                /\ Len(q1.responses) = Len(q.responses) + 1
                /\ (q1.pc = "build") = (q1.i = N)
                /\ rain_cache' = rain_cache
          \* build and put come after the fetch of every location
          /\ q.pc = "build" =>
                /\ q.i = N /\ Len(q.responses) = N
                /\ rain_cache' = rain_cache
          /\ q.pc = "put" =>
                /\ q.i = N /\ Len(q.responses) = N /\ N > 0
                /\ q1.status = 200 /\ ~q1.from_cache /\ q1.body = q.html
                /\ Row(KeyOf(q), q.html, strftime(now)) \in rain_cache'

\* C13: the steps of a request come in the order validate date, cache
\* get, then on a miss one forecast fetch per location, build, cache put,
\* respond; a hit answers with the stored payload without any fetch or put;
\* on a miss each of the N locations is fetched exactly once, and cache_put
\* runs at most once, after all N fetches, and nothing else adds a row.
C13_RequestFlow ==
    [][/\ \A r \in Reqs : FlowStep(r)
       /\ \A r \in Reqs : req[r].pc = "done" => req'[r] = req[r]
       /\ (rain_cache' \ rain_cache # {}) =>
             \E r \in Reqs : req[r].pc = "put" /\ req'[r].pc = "done"]_vars

\* One request fetched both locations, built and stored the page; the other
\* was answered from the cache without a fetch.
C13_Witness ==
    /\ req["r1"].pc = "done" /\ req["r1"].status = 200
    /\ ~req["r1"].from_cache /\ Len(req["r1"].responses) = 2
    /\ req["r2"].pc = "done" /\ req["r2"].from_cache
    /\ req["r2"].responses = <<>>
    /\ req["r2"].body = req["r1"].html

\* ================================================ claims, rejected requests
\* The date argument of request q is unparseable or outside today ..
\* today + 4 days, today being the date in the request's zone at instant t.
DateRejected(q, t) ==
    LET today == safe_now_date_in_tz(q.tz, t)
    IN  \/ q.date_str.kind = "garbage"
        \/ /\ q.date_str.kind = "date"
           /\ ~(today <= q.date_str.d /\ q.date_str.d <= today + 4)

\* C14: a request whose date is unparseable or outside the window is
\* rejected at the validation, before any forecast fetch, cache_get or
\* cache_put: it answers 400 straight from the validation and does nothing
\* afterwards, and no request stands at or beyond cache_get with such a date.
C14_RejectedBeforeUpstreamWork ==
    [][\A r \in Reqs :
         LET q == req[r]
             q1 == req'[r]
         IN  /\ (q.pc = "prepare" /\ q1 # q /\ DateRejected(q, now)) =>
                   /\ q1.pc = "done" /\ q1.status = 400
                   /\ q1.responses = <<>> /\ q1.html = NoHtml
                   /\ ~q1.from_cache
             /\ (q1 # q /\ q1.status = 400) => q.pc = "prepare"
             /\ (q.pc = "done" /\ q.status = 400) => q1 = q
             /\ q.pc \in {"get", "fetch", "build", "put"} =>
                   ~DateRejected(q, now)]_vars

\* A date five days ahead is refused although the cache holds a fresh row.
C14_Witness ==
    /\ req["r1"].pc = "done" /\ req["r1"].status = 400
    /\ req["r1"].date_str = DateArg(req["r1"].qdate + 5)
    /\ StoredRow(strftime(now) - CACHE_TTL_SECONDS \div 2) \in rain_cache

\* C15: no step of a request that the date validation rejects changes the
\* set of cache entries, whatever the cache held before (entries older than
\* the retention window included).
C15_RejectedRequestLeavesCache ==
    [][\A r \in Reqs :
         (req'[r] # req[r] /\ DateRejected(req'[r], now)) =>
             rain_cache' = rain_cache]_vars

\* ================================================= claims, provider arrays
\* The arrays of a forecast body are as long as its time array; the
\* probability array alone may be missing.
WellShaped(h) ==
    /\ Len(h.precipitation) = Len(h.time)
    /\ Len(h.cloudcover) = Len(h.time)
    /\ Len(h.precipitation_probability) \in {0, Len(h.time)}

\* C16: no request completes successfully, and no cache entry is written,
\* from a forecast whose arrays differ in length from its time array (a
\* missing probability array excepted): such a request fails.
C16_MismatchedArraysFail ==
    \A r \in Reqs :
        LET q == req[r]
        IN  (\/ q.pc = "done" /\ q.status = 200 /\ ~q.from_cache
             \/ q.html # NoHtml /\ \E row \in rain_cache : row.html = q.html)
            => \A j \in 1..Len(q.responses) : WellShaped(q.responses[j])

\* ============================================== claims, cache store failure
\* C17: a failing cache_prune, cache_get or cache_put does not end a request
\* whose date is valid in an error: after cache_prune the request goes on to
\* the validation, after cache_get it is answered from the cache or goes on
\* to the fetches, and after cache_put it answers with the page it built.
C17_CacheFailureStillServes ==
    [][\A r \in Reqs :
         LET q == req[r]
             q1 == req'[r]
         IN  /\ (q.pc = "idle" /\ q1 # q /\ ~DateRejected(q1, now)) =>
                   q1.pc = "prepare"
             /\ (q.pc = "get" /\ q1 # q) =>
                   \/ q1.pc = "fetch"
                   \/ q1.pc = "done" /\ q1.status = 200
             /\ (q.pc = "put" /\ q1 # q) =>
                   /\ q1.pc = "done" /\ q1.status = 200
                   /\ q1.body = q.html]_vars

\* ======================================================= claims, the matrix
\* The build loop of request q has run to its end.
LoopDone(q) ==
    q.pc \in {"build", "put"}
        \/ (q.pc = "done" /\ q.status = 200 /\ ~q.from_cache)

HourKeys(time_index) ==
    {hour_key(time_index[i]) : i \in 1..Len(time_index)}

\* C18: after the build loop cell_map has an entry, possibly empty, for
\* the label of every loaded place and for nothing else, and every hour key
\* of an entry is the hour key of an element of time_index.
C18_CellsWithinPlacesAndHours ==
    LET q == req["r1"]
    IN  LoopDone(q) =>
           /\ DOMAIN q.cell_map = Labels(q.places)
           /\ \A L \in DOMAIN q.cell_map :
                 DOMAIN q.cell_map[L] \subseteq HourKeys(q.time_index)

\* The loop has ended: one place has no cell, another has cells, and the
\* forecast also held a sample of the day after.
C18_Witness ==
    LET q == req["r1"]
    IN  /\ q.pc = "build"
        /\ Len(q.places) = 3
        /\ q.cell_map["AIVR"] = <<>>
        /\ DOMAIN q.cell_map["Calapan"] = {1, 13}
        /\ q.responses[1].time = <<At(q.target_date + 1, 0)>>

\* ================================================ claims, the sentinel cell
\* The forecast body h holds a sample of date d with hour key hk.
HasSample(h, d, hk) ==
    LET hourly == hourly_forecast(h)
        z == zip4(hourly.time, hourly.precip, hourly.pop, hourly.cloud)
    IN  \E j \in 1..Len(z) : z[j][1].date = d /\ hour_key(z[j][1]) = hk

\* C19: in the page built from the forecasts, the cell of a place and an
\* hour of the time index for which the place's forecast has no sample is
\* the sentinel cell (icon "-" dash, precipitation 0, probability 0), also
\* when the place has no sample at all; the cell of a pair that has a sample
\* is not the sentinel: it carries the sample's icon, precipitation and
\* probability.
C19_SentinelForMissingSamples ==
    LET q == req["r1"]
    IN  (q.pc = "put" \/ (q.pc = "done" /\ q.status = 200 /\ ~q.from_cache)) =>
           /\ Len(q.html.table) = Len(q.time_index)
           /\ \A i \in 1..Len(q.html.table) :
                 /\ Len(q.html.table[i].cells) = Len(q.places)
                 /\ \A j \in 1..Len(q.places) :
                       LET cell == q.html.table[i].cells[j]
                           hk == hour_key(q.time_index[i])
                       IN  IF HasSample(q.responses[j], q.target_date, hk)
                           THEN /\ cell.icon # "em_dash"
                                /\ cell.icon = q.cell_map[q.places[j].label][hk][1]
                                /\ cell.precip = q.cell_map[q.places[j].label][hk][2]
                                /\ cell.pop_i = q.cell_map[q.places[j].label][hk][3]
                           ELSE /\ cell.icon = "em_dash"
                                /\ cell.precip = 0 /\ cell.val = Absent
                                /\ cell.bg = SKYBLUE
                                /\ cell.pop_i = 0 /\ cell.pill_bg = POP_WHITE

\* A page of three hours: the first place has no sample of the day at all,
\* the second none at 00:00, the third none at 13:00.
C19_Witness ==
    LET q == req["r1"]
    IN  /\ q.pc = "put"
        /\ Len(q.html.table) = 3
        /\ q.responses[1].time = <<At(q.target_date + 1, 0)>>
        /\ q.responses[2].time = <<At(q.target_date, 1), At(q.target_date, 13)>>
        /\ q.responses[3].time = <<At(q.target_date, 0), At(q.target_date, 1)>>
        /\ \A i \in 1..3 : q.html.table[i].cells[1].icon = "em_dash"
        /\ q.html.table[1].cells[2].icon = "em_dash"
        /\ q.html.table[1].cells[3].icon # "em_dash"

\* ================================================ claims, concurrent prune
\* C21: among cache_put, cache_get and cache_prune calls in any order, a
\* prune repeated at the same time changes nothing, a prune removes no row
\* that could have been written within the retention window before it, and a
\* get that hits returns the payload of the latest put on its key.
C21_PruneSafeAmongPutsAndGets ==
    /\ last.op = "prune" =>
          /\ cache_prune(rain_cache, utcnow) = rain_cache
          /\ \A row \in last.deleted :
                strptime(row.created_at) + TicksPerSec <= utcnow - RetentionTicks
    /\ (last.op = "get" /\ last.hit) =>
          /\ putAt[last.key] # NoPut
          /\ last.ret = putAt[last.key].html
          /\ utcnow - putAt[last.key].t < RetentionTicks

\* A prune has just removed the row of one key and kept the younger row of
\* the other.
C21_Witness ==
    /\ last.op = "prune"
    /\ last.deleted # {}
    /\ rain_cache # {}
    /\ \A row \in last.deleted : \A kept \in rain_cache : row.key # kept.key

\* ======================================================== claims, nocache
\* C22: a request with nocache=1 never stands at cache_get or cache_put:
\* after the validation it fetches every location, also when the cache holds
\* a fresh row for its key, and answers with the page it built; its
\* cache_prune only removes rows, and no later step of it touches the store,
\* so every remaining row, the one of its own key included, keeps its
\* payload and created_at.
C22_NoCacheBypassesBothWays ==
    [][\A r \in Reqs :
         LET q == req[r]
             q1 == req'[r]
         IN  (q1 # q /\ q1.nocache) =>
               /\ q1.pc \notin {"get", "put"}
               /\ q.pc \notin {"get", "put"}
               /\ ~q1.from_cache
               /\ IF q.pc = "idle"
                  THEN rain_cache' = cache_prune(rain_cache, utcnow)
                          /\ rain_cache' \subseteq rain_cache
                  ELSE rain_cache' = rain_cache
               /\ (q.pc = "prepare" /\ q1.pc # "done") => q1.pc = "fetch"
               /\ (q1.pc = "done" /\ q1.status = 200) =>
                     /\ q.pc = "build"
                     /\ Len(q1.responses) = Len(q1.places)
                     /\ q1.body = q1.html /\ q1.html # NoHtml]_vars

\* The request with nocache=1 has answered with a page built from two
\* fetches while the cache still holds the fresh row of its key, unchanged.
C22_Witness ==
    LET q == req["r1"]
        fresh == StoredRow(strftime(now) - CACHE_TTL_SECONDS \div 2)
    IN  /\ q.pc = "done" /\ q.nocache /\ q.status = 200
        /\ Len(q.responses) = 2
        /\ fresh \in rain_cache
        /\ fresh.key = KeyOf(q)
        /\ fresh.html # q.body

\* ================================================ claims, TTL and retention
\* C23: at every time, a row for which cache_get returns a hit survives a
\* cache_prune executed at that time, and cache_get after that prune returns
\* the same hit.
C23_PruneKeepsFreshRows ==
    \A k \in Keys :
        LET before == cache_get(rain_cache, k, utcnow)
            pruned == cache_prune(rain_cache, utcnow)
            after == cache_get(pruned, k, utcnow)
        IN  before.hit =>
              /\ RowsOf(k) \subseteq pruned
              /\ after.hit /\ after.ret = before.ret

\* One key has a fresh row while a prune at this time would remove the row
\* of the other key.
C23_Witness ==
    \E k \in Keys :
        /\ cache_get(rain_cache, k, utcnow).hit
        /\ cache_prune(rain_cache, utcnow) # rain_cache
        /\ RowsOf(k) \subseteq cache_prune(rain_cache, utcnow)

\* ============================================ claims, the date in the key
\* C24: when a request is answered from the cache, the request that built
\* and stored the payload had the same "today" in the requested zone, also
\* when the row is younger than the TTL and both asked for the same target
\* date, zone, country, model and places.
C24_HitOnlyForSameToday ==
    [][\A r \in Reqs : \A b \in Reqs \ {r} :
         (/\ req[r].pc = "get"
          /\ req'[r].pc = "done" /\ req'[r].from_cache
          /\ BuiltAndPut(b)
          /\ req[b].html = req'[r].body)
         => /\ req[b].qdate = req[r].qdate
            /\ KeyOf(req[b]) = KeyOf(req[r])]_vars

\* The first request stored the page for day 1 just before midnight; the
\* second asked for day 1 just after, less than a second later, with every
\* other key column equal, and was not answered from the cache.
C24_Witness ==
    /\ BuiltAndPut("r1") /\ req["r1"].qdate = 0 /\ req["r1"].target_date = 1
    /\ req["r2"].pc = "done" /\ req["r2"].status = 200
    /\ ~req["r2"].from_cache
    /\ req["r2"].qdate = 1 /\ req["r2"].target_date = 1
    /\ req["r2"].p_sig = req["r1"].p_sig
    /\ putter = "r2"
    /\ Cardinality(rain_cache) = 2

====
